---- MODULE Spec2Model ----
(***************************************************************************)
(* pip4a: the dependency checker (src/pip4a/checker.py) and the            *)
(* uninstaller (src/pip4a/uninstaller.py).                                 *)
(*                                                                         *)
(* Text is kept as sequences of tokens so that parsing, prefix tests and   *)
(* suffix tests are computed and not assumed:                              *)
(*   - a version string is a sequence of release segments, <<"2", "0">>    *)
(*     for "2.0"; a segment that is no number makes it malformed;          *)
(*   - a constraint string is a sequence of clauses <<operator, version>>, *)
(*     the comma separated clauses of ">=1,<2";                            *)
(*   - a file or collection name is a sequence of tokens, <<"a",".","x">>  *)
(*     for "a.x".                                                          *)
(* Pre-release versions are outside the model (releases only).             *)
(***************************************************************************)
EXTENDS Integers, Sequences, FiniteSets, TLC

VARIABLES
    pc,                  \* position of the running command
    log,                 \* records emitted so far (logger, hint, note)
    raised,              \* the exception that left the command, or NoError
    collections,         \* Checker: the universe collect_manifests returned
    ci,                  \* Checker: index of the collection being checked
    di,                  \* Checker: index of the dependency being checked
    missing,             \* Checker._collection_deps: the local `missing`
    collections_missing, \* Checker._collections_missing ("unset" until assigned)
    dry_run_exit,        \* Checker: exit status of the dry-run pip, -1 before it
    pip_report,          \* Checker: pip-report.txt after the dry run
    collection_specifier,\* UnInstaller: app.args.collection_specifier
    dependencies,        \* UnInstaller: keys of app.collection_dependencies
    fs,                  \* UnInstaller: the tree under site-packages
    fs0,                 \* the tree when the command started
    fs1,                 \* the tree after the first completed removal
    pip_calls,           \* UnInstaller: requirements files handed to pip
    runs                 \* number of _remove_collections calls made

vars == <<pc, log, raised, collections, ci, di, missing, collections_missing,
          dry_run_exit, pip_report, collection_specifier, dependencies, fs,
          fs0, fs1, pip_calls, runs>>

checkerVars == <<collections, ci, di, missing, collections_missing,
                 dry_run_exit, pip_report>>
uninstallerVars == <<collection_specifier, dependencies, fs, fs0, fs1,
                     pip_calls, runs>>

(***************************************************************************)
(* Bounds of the model.                                                    *)
(***************************************************************************)
MaxPairs == 2      \* declared (collection, dependency) pairs in a universe
MaxInstall == 1    \* entries of the dry-run report's install list
MaxRuns == 2       \* consecutive calls of _remove_collections

NoName == <<>>
NoSpec == <<>>
NoVersion == <<>>

(***************************************************************************)
(* Records of the logging sink and of the hint/note channel.               *)
(***************************************************************************)
Rec(level, kind, coll, dep, spec, version) ==
    [level |-> level, kind |-> kind, coll |-> coll, dep |-> dep,
     spec |-> spec, version |-> version, packages |-> <<>>]

PkgRec(level, kind, packages) ==
    [level |-> level, kind |-> kind, coll |-> NoName, dep |-> NoName,
     spec |-> NoSpec, version |-> NoVersion, packages |-> packages]

Event(level, kind) == Rec(level, kind, NoName, NoName, NoSpec, NoVersion)

NoError == Event("none", "none")

(***************************************************************************)
(* packaging.version.Version and packaging.specifiers.SpecifierSet.        *)
(***************************************************************************)
Digit == [d \in {"0", "1", "2", "3"} |-> CASE d = "0" -> 0 [] d = "1" -> 1
                                             [] d = "2" -> 2 [] d = "3" -> 3]

ValidVersion(s) == Len(s) > 0 /\ \A i \in 1..Len(s) : s[i] \in DOMAIN Digit

Seg(s, i) == IF i <= Len(s) THEN Digit[s[i]] ELSE 0

\* -1, 0 or 1: releases compare segment by segment, the shorter padded with 0
RECURSIVE CmpFrom(_, _, _)
CmpFrom(a, b, i) ==
    IF i > Len(a) /\ i > Len(b) THEN 0
    ELSE IF Seg(a, i) < Seg(b, i) THEN -1
    ELSE IF Seg(a, i) > Seg(b, i) THEN 1
    ELSE CmpFrom(a, b, i + 1)

VersionCmp(a, b) == CmpFrom(a, b, 1)

Operators == {">=", "<=", ">", "<", "==", "!="}

ValidClause(c) == c[1] \in Operators /\ ValidVersion(c[2])

ValidSpecifierSet(s) == \A i \in 1..Len(s) : ValidClause(s[i])

ClauseContains(c, v) ==
    LET r == VersionCmp(v, c[2]) IN
    CASE c[1] = ">=" -> r >= 0
      [] c[1] = "<=" -> r <= 0
      [] c[1] = ">"  -> r > 0
      [] c[1] = "<"  -> r < 0
      [] c[1] = "==" -> r = 0
      [] c[1] = "!=" -> r # 0

\* SpecifierSet.contains: every clause holds (no clause: any version)
SpecContains(s, v) == \A i \in 1..Len(s) : ClauseContains(s[i], v)

(***************************************************************************)
(* The universe: a dict, kept as the sequence of its items in iteration    *)
(* order.                                                                  *)
(***************************************************************************)
Installable == {<<"a", ".", "x">>, <<"b", ".", "y">>}
DepNames == Installable \cup {<<"c", ".", "z">>}
NameOrder == << <<"a", ".", "x">>, <<"b", ".", "y">>, <<"c", ".", "z">> >>

VersionStrings == {<<"1">>, <<"2", "0">>, <<"x">>}
ConstraintStrings ==
    { <<>>,
      << <<">=", <<"2">> >> >>,
      << <<">=", <<"1">> >>, <<"<", <<"2">> >> >>,
      << <<"=>", <<"1">> >> >> }

Keys(colls) == {colls[i].name : i \in 1..Len(colls)}
Lookup(colls, n) == colls[CHOOSE i \in 1..Len(colls) : colls[i].name = n]

\* the (collection index, dependency index) positions of a universe
Positions(colls) ==
    {p \in (1..Len(colls)) \X (1..Len(NameOrder)) :
        p[2] <= Len(colls[p[1]].dependencies)}

DepAt(colls, p) == colls[p[1]].dependencies[p[2]]

RECURSIVE SeqOfSet(_, _)
\* the members of S in the order of the sequence ord
SeqOfSet(ord, S) ==
    IF ord = <<>> THEN <<>>
    ELSE (IF Head(ord) \in S THEN <<Head(ord)>> ELSE <<>>)
         \o SeqOfSet(Tail(ord), S)

Universe(ver, cons) ==
    LET names == SeqOfSet(NameOrder, DOMAIN ver)
        deps(n) == SeqOfSet(NameOrder, {d \in DepNames : <<n, d>> \in DOMAIN cons})
    IN  [i \in 1..Len(names) |->
            [name |-> names[i],
             version |-> ver[names[i]],
             dependencies |->
                [j \in 1..Len(deps(names[i])) |->
                    [dep |-> deps(names[i])[j],
                     version |-> cons[<<names[i], deps(names[i])[j]>>]]]]]

(***************************************************************************)
(* Checker._collection_deps                                                *)
(***************************************************************************)
NoDepsRecords(name) ==
    << Rec("debug", "checking", name, NoName, NoSpec, NoVersion),
       Rec("debug", "no_dependencies", name, NoName, NoSpec, NoVersion) >>

CheckingRecords(name) ==
    << Rec("debug", "checking", name, NoName, NoSpec, NoVersion) >>

\* mutant: the mismatch branch copies the hint of the not-installed branch
MismatchRecordsWithHint(name, dep, version, dep_version) ==
    << Rec("warning", "mismatch", name, dep, version, dep_version),
       Rec("hint", "pip4a_install", NoName, dep, NoSpec, NoVersion) >>

\* lines 63-69: the constraint does not contain the installed version
MismatchRecords(name, dep, version, dep_version) ==
    << Rec("warning", "mismatch", name, dep, version, dep_version) >>

\* lines 71-76
SatisfiedRecords(name, dep, version, dep_version) ==
    << Rec("debug", "satisfied", name, dep, version, dep_version) >>

\* mutant: the not-installed branch forgets its hint
NotInstalledRecordsNoHint(name, dep, version) ==
    << Rec("warning", "not_installed", name, dep, version, NoVersion) >>

\* lines 77-85: the dependency is no key of the universe
NotInstalledRecords(name, dep, version) ==
    << Rec("warning", "not_installed", name, dep, version, NoVersion),
       Rec("hint", "pip4a_install", NoName, dep, NoSpec, NoVersion) >>

\* The exceptions of packaging carry the offending string and nothing else.
InvalidSpecifier(version) ==
    Rec("exception", "InvalidSpecifier", NoName, NoName, version, NoVersion)
\* mutant: the malformed version is swallowed
InvalidVersionSwallowed(dep_version) == NoError

InvalidVersion(dep_version) ==
    Rec("exception", "InvalidVersion", NoName, NoName, NoSpec, dep_version)

\* One pass of the body of `for dep, version in deps.items()` (lines 58-85):
\* what it raises, what it logs and whether it sets `missing`.
CheckDep(colls, name, dep, version) ==
    IF ~ValidSpecifierSet(version)
    THEN [raise |-> InvalidSpecifier(version), out |-> <<>>, miss |-> FALSE]
    ELSE IF dep \in Keys(colls)
    THEN LET dep_version == Lookup(colls, dep).version IN
         IF ~ValidVersion(dep_version)
         THEN [raise |-> InvalidVersion(dep_version), out |-> <<>>, miss |-> FALSE]
         ELSE IF ~SpecContains(version, dep_version)
         THEN [raise |-> NoError,
               out |-> MismatchRecords(name, dep, version, dep_version),
               miss |-> TRUE]
         ELSE [raise |-> NoError,
               out |-> SatisfiedRecords(name, dep, version, dep_version),
               miss |-> FALSE]
    ELSE [raise |-> NoError,
          out |-> NotInstalledRecords(name, dep, version),
          miss |-> TRUE]

\* lines 50-57: the head of the loop over the universe
CollectionDepsNext ==
    /\ pc = "collection_deps"
    /\ ci <= Len(collections)
    /\ LET details == collections[ci] IN
       IF details.dependencies = <<>>
       THEN /\ log' = log \o NoDepsRecords(details.name)
            /\ ci' = ci + 1
            /\ pc' = pc
       ELSE /\ log' = log \o CheckingRecords(details.name)
            /\ ci' = ci
            /\ pc' = "deps"
    /\ di' = 1
    /\ UNCHANGED <<raised, collections, missing, collections_missing,
                   dry_run_exit, pip_report, uninstallerVars>>

\* lines 58-85: one dependency of the collection at ci
CollectionDepsCheck ==
    /\ pc = "deps"
    /\ LET details == collections[ci]
           item == details.dependencies[di]
           r == CheckDep(collections, details.name, item.dep, item.version)
       IN  IF r.raise # NoError
           THEN /\ raised' = r.raise
                /\ pc' = "raised"
                /\ UNCHANGED <<log, missing, ci, di>>
           ELSE /\ log' = log \o r.out
                /\ missing' = (missing \/ r.miss)
                /\ raised' = raised
                /\ IF di < Len(details.dependencies)
                   THEN /\ di' = di + 1
                        /\ UNCHANGED <<ci, pc>>
                   ELSE /\ di' = 1
                        /\ ci' = ci + 1
                        /\ pc' = "collection_deps"
    /\ UNCHANGED <<collections, collections_missing, dry_run_exit, pip_report,
                   uninstallerVars>>

BoolStr(b) == IF b THEN "True" ELSE "False"

\* mutant: the confirmation is emitted whatever `missing` is
AllInstalledRecordsAlways(miss) ==
    << Event("note", "all_collections_installed") >>

AllInstalledRecords(miss) ==
    IF ~miss THEN << Event("note", "all_collections_installed") >>
    ELSE <<>>

\* lines 87-90, and the return to Checker.run (line 42)
CollectionDepsFinish ==
    /\ pc = "collection_deps"
    /\ ci > Len(collections)
    /\ log' = log \o AllInstalledRecords(missing)
    /\ collections_missing' = BoolStr(missing)
    /\ pc' = "python_deps"
    /\ UNCHANGED <<raised, collections, ci, di, missing, dry_run_exit,
                   pip_report, uninstallerVars>>

(***************************************************************************)
(* Checker._python_deps                                                    *)
(***************************************************************************)
Packages == {[name |-> "x", version |-> "1.0"], [name |-> "y", version |-> "2.0"]}

RECURSIVE SeqsUpTo(_, _)
\* the sequences over S of length at most n
SeqsUpTo(S, n) ==
    IF n = 0 THEN {<<>>}
    ELSE LET shorter == SeqsUpTo(S, n - 1) IN
         shorter \cup {Append(q, x) : q \in shorter, x \in S}

NoReport == [exists |-> FALSE, has_install |-> FALSE, install |-> <<>>]

\* pip-report.txt as a parsed document
Reports ==
    {[exists |-> TRUE, has_install |-> FALSE, install |-> <<>>]}
    \cup {[exists |-> TRUE, has_install |-> TRUE, install |-> q] :
            q \in SeqsUpTo(Packages, MaxInstall)}

\* What the cache directory holds after the dry run: pip writes the report
\* when it succeeds; after a failure the file is missing or left from before.
ReportsAfter(exit) == IF exit = 0 THEN Reports ELSE Reports \cup {NoReport}

\* f"{package['metadata']['name']}=={package['metadata']['version']}"
Requirement(package) == <<package.name, "==", package.version>>

DryRunRecords(exit) ==
    IF exit # 0 THEN << Event("critical", "dry_run_failed") >> ELSE <<>>

\* mutant: the disclaimer does not look at the flag
DisclaimerRecordsAlways(flag) ==
    << Event("warning", "missing_collections_disclaimer") >>

DisclaimerRecords(flag) ==
    IF flag = "True" THEN << Event("warning", "missing_collections_disclaimer") >>
    ELSE <<>>

\* lines 108-127: what reading the report raises and emits
ReportOutcome(report, flag) ==
    IF ~report.exists
    THEN [raise |-> Event("exception", "FileNotFoundError"), out |-> <<>>]
    ELSE IF ~report.has_install \/ report.install = <<>>
    THEN [raise |-> NoError,
          out |-> << Event("note", "all_python_installed") >>]
    ELSE LET missing_reqs ==
                [i \in 1..Len(report.install) |-> Requirement(report.install[i])]
         IN  IF flag = "unset"
             THEN [raise |-> Event("exception", "AttributeError"),
                   out |-> << PkgRec("warning", "missing_python", missing_reqs),
                              PkgRec("hint", "pip_install", missing_reqs) >>]
             ELSE [raise |-> NoError,
                   out |-> << PkgRec("warning", "missing_python", missing_reqs),
                              PkgRec("hint", "pip_install", missing_reqs) >>
                           \o DisclaimerRecords(flag)]

\* line 94: builder_introspect raises and ends the run
PythonDepsIntrospectFails ==
    /\ pc = "python_deps"
    /\ raised' = Event("exception", "builder_introspect")
    /\ pc' = "raised"
    /\ UNCHANGED <<log, checkerVars, uninstallerVars>>

\* lines 94-107: introspection, then the dry-run pip and its exit status
PythonDepsDryRun ==
    /\ pc = "python_deps"
    /\ \E exit \in {0, 1} : \E report \in ReportsAfter(exit) :
        /\ dry_run_exit' = exit
        /\ pip_report' = report
        /\ log' = log \o DryRunRecords(exit)
    /\ pc' = "read_report"
    /\ UNCHANGED <<raised, collections, ci, di, missing, collections_missing,
                   uninstallerVars>>

\* lines 108-127
PythonDepsReport ==
    /\ pc = "read_report"
    /\ LET r == ReportOutcome(pip_report, collections_missing) IN
        /\ log' = log \o r.out
        /\ raised' = r.raise
        /\ pc' = IF r.raise # NoError THEN "raised" ELSE "done"
    /\ UNCHANGED <<checkerVars, uninstallerVars>>

(***************************************************************************)
(* Checker.run over every universe within the bounds.                      *)
(***************************************************************************)
EmptyTree == <<>>

UninstallerIdle ==
    /\ collection_specifier = NoName
    /\ dependencies = <<>>
    /\ fs = EmptyTree
    /\ fs0 = EmptyTree
    /\ fs1 = EmptyTree
    /\ pip_calls = <<>>
    /\ runs = 0

Init ==
    /\ \E inst \in SUBSET Installable : \E ver \in [inst -> VersionStrings] :
       \E pairs \in SUBSET (inst \X DepNames) :
        /\ Cardinality(pairs) <= MaxPairs
        /\ \E cons \in [pairs -> ConstraintStrings] :
            collections = Universe(ver, cons)
    /\ pc = "collection_deps"
    /\ log = <<>>
    /\ raised = NoError
    /\ ci = 1
    /\ di = 1
    /\ missing = FALSE
    /\ collections_missing = "unset"
    /\ dry_run_exit = -1
    /\ pip_report = NoReport
    /\ UninstallerIdle

Next ==
    \/ CollectionDepsNext
    \/ CollectionDepsCheck
    \/ CollectionDepsFinish
    \/ PythonDepsIntrospectFails
    \/ PythonDepsDryRun
    \/ PythonDepsReport

Spec == Init /\ [][Next]_vars

(***************************************************************************)
(* The tree under <site-packages>/ansible_collections.  A path is the      *)
(* sequence of its components below the collection root, a component the   *)
(* sequence of the tokens of its name.  Every node has a kind:             *)
(*   absent, dir, file, link_dir (a symlink to a directory outside the     *)
(*   tree), link_dangling (a symlink whose target does not exist).         *)
(***************************************************************************)
Dot == <<".">>
collection_name == <<"a", ".", "x">>
OtherName == <<"b", ".", "y">>
SiblingName == <<"a", ".", "z">>

CollectionRoot == <<>>
NsA == << <<"a">> >>
NsB == << <<"b">> >>
PathAX == << <<"a">>, <<"x">> >>
PathAXPlugins == << <<"a">>, <<"x">>, <<"plugins">> >>
PathAZ == << <<"a">>, <<"z">> >>
PathBY == << <<"b">>, <<"y">> >>
InfoAX == << <<"a", ".", "x", "-1", ".", "info">> >>
InfoBY == << <<"b", ".", "y", "-1", ".", "info">> >>
TextAX == << <<"a", ".", "x", "-1", ".", "txt">> >>
NestedInfoAX == << <<"a">>, <<"a", ".", "x", "-1", ".", "info">> >>

\* every node of the model, a parent before its children
NodeOrder ==
    << CollectionRoot, NsA, NsB, InfoAX, InfoBY, TextAX,
       PathAX, PathAZ, NestedInfoAX, PathBY, PathAXPlugins >>
Nodes == {NodeOrder[i] : i \in 1..Len(NodeOrder)}

Parent(path) == SubSeq(path, 1, Len(path) - 1)
IsUnder(path, top) ==
    Len(top) <= Len(path) /\ SubSeq(path, 1, Len(top)) = top

Kind(tree, path) == IF path \in DOMAIN tree THEN tree[path] ELSE "absent"

\* Path.exists follows a symlink
Exists(tree, path) == Kind(tree, path) \in {"dir", "file", "link_dir"}
IsSymlink(tree, path) == Kind(tree, path) \in {"link_dir", "link_dangling"}
\* Path.is_dir follows a symlink
IsDir(tree, path) == Kind(tree, path) \in {"dir", "link_dir"}

Children(tree, path) ==
    {n \in DOMAIN tree : Len(n) = Len(path) + 1 /\ Parent(n) = path
                         /\ tree[n] # "absent"}

\* os.listdir in a fixed order
Iterdir(tree, path) == SeqOfSet(NodeOrder, Children(tree, path))

OsError(kind) == Event("exception", kind)

Unlink(tree, path) == [tree EXCEPT ![path] = "absent"]

\* shutil.rmtree: refuses a symlink, fails on what is no directory
Rmtree(tree, path) ==
    CASE Kind(tree, path) = "dir" ->
            [fs |-> [n \in DOMAIN tree |->
                        IF IsUnder(n, path) THEN "absent" ELSE tree[n]],
             err |-> NoError]
      [] Kind(tree, path) \in {"link_dir", "link_dangling"} ->
            [fs |-> tree, err |-> OsError("OSError")]
      [] Kind(tree, path) = "file" ->
            [fs |-> tree, err |-> OsError("NotADirectoryError")]
      [] OTHER ->
            [fs |-> tree, err |-> OsError("FileNotFoundError")]

\* Path.rmdir
Rmdir(tree, path) ==
    CASE Kind(tree, path) = "absent" ->
            [fs |-> tree, err |-> OsError("FileNotFoundError")]
      [] Kind(tree, path) # "dir" ->
            [fs |-> tree, err |-> OsError("NotADirectoryError")]
      [] Children(tree, path) # {} ->
            [fs |-> tree, err |-> OsError("OSError")]
      [] OTHER ->
            [fs |-> [tree EXCEPT ![path] = "absent"], err |-> NoError]

(***************************************************************************)
(* str.split, str.startswith and PurePath.suffix on token sequences.       *)
(***************************************************************************)
RECURSIVE SplitFrom(_, _, _, _)
SplitFrom(text, sep, i, part) ==
    IF i > Len(text) THEN <<part>>
    ELSE IF text[i] = sep THEN <<part>> \o SplitFrom(text, sep, i + 1, <<>>)
    ELSE SplitFrom(text, sep, i + 1, Append(part, text[i]))

Split(text, sep) == SplitFrom(text, sep, 1, <<>>)

StartsWith(text, prefix) ==
    Len(prefix) <= Len(text) /\ SubSeq(text, 1, Len(prefix)) = prefix

\* the name from its last dot on, unless that dot opens or closes the name
Suffix(name) ==
    LET dots == {i \in 1..Len(name) : name[i] = "."} IN
    IF dots = {} THEN <<>>
    ELSE LET last == CHOOSE i \in dots : \A j \in dots : j <= i IN
         IF 1 < last /\ last < Len(name) THEN SubSeq(name, last, Len(name))
         ELSE <<>>

InfoSuffix == <<".", "info">>

(***************************************************************************)
(* UnInstaller._remove_collections                                         *)
(***************************************************************************)
\* line 50-53
CollectionNames(deps) == deps \o <<collection_name>>

\* lines 71-74: a symlink is unlinked, anything else goes to rmtree
UnlinkOrRmtree(tree, path) ==
    IF IsSymlink(tree, path)
    THEN [fs |-> Unlink(tree, path), err |-> NoError]
    ELSE Rmtree(tree, path)

NameRec(level, kind, name) == Rec(level, kind, name, NoName, NoSpec, NoVersion)

\* lines 68-76: the log of a removal that ended as r
Removed(r, name) ==
    [fs |-> r.fs, err |-> r.err,
     out |-> << NameRec("debug", "exists", name) >>
             \o IF r.err = NoError
                THEN << NameRec("info", "removed", name) >>
                ELSE <<>>]

\* mutant: the collection path is removed without asking whether it exists
RemovePathUnguarded(tree, path, name) ==
    Removed(UnlinkOrRmtree(tree, path), name)

\* lines 67-79: the collection path
RemovePath(tree, path, name) ==
    IF Exists(tree, path)
    THEN Removed(UnlinkOrRmtree(tree, path), name)
    ELSE [fs |-> tree, err |-> NoError,
          out |-> << NameRec("debug", "failed_to_find", name) >>]

EntryName(entry) == entry[Len(entry)]

\* mutant: the suffix of the entry is not looked at
IsMetadataEntryAnySuffix(tree, entry, name) ==
    /\ IsDir(tree, entry)
    /\ StartsWith(EntryName(entry), name)

\* lines 85-91
IsMetadataEntry(tree, entry, name) ==
    /\ IsDir(tree, entry)
    /\ StartsWith(EntryName(entry), name)
    /\ Suffix(EntryName(entry)) = InfoSuffix

\* lines 92-94: st after the rmtree of an entry ended as r
MetadataRemoved(st, r, name) ==
    [fs |-> r.fs, err |-> r.err,
     out |-> st.out \o
             IF r.err = NoError
             THEN << NameRec("info", "removed_info", name) >>
             ELSE <<>>]

RECURSIVE RemoveMetadata(_, _, _)
\* lines 84-94: the loop over the listing of the collection root
RemoveMetadata(st, entries, name) ==
    IF entries = <<>> \/ st.err # NoError THEN st
    ELSE IF IsMetadataEntry(st.fs, Head(entries), name)
    THEN RemoveMetadata(
            MetadataRemoved(st, Rmtree(st.fs, Head(entries)), name),
            Tail(entries), name)
    ELSE RemoveMetadata(st, Tail(entries), name)

\* lines 81-94: r is how the collection path ended
ScanCollectionRoot(r, collection_namespace_root, name) ==
    IF r.err # NoError \/ ~Exists(r.fs, collection_namespace_root)
    THEN r
    ELSE RemoveMetadata(r, Iterdir(r.fs, CollectionRoot), name)

Checked(r, name) ==
    [fs |-> r.fs, err |-> r.err,
     out |-> << NameRec("debug", "checking", name) >> \o r.out]

\* lines 59-94 for a name split into parts
RemoveParts(tree, name, parts) ==
    IF Len(parts) # 2
    THEN [fs |-> tree, err |-> OsError("ValueError"), out |-> <<>>]
    ELSE ScanCollectionRoot(
            Checked(RemovePath(tree, <<parts[1], parts[2]>>, name), name),
            <<parts[1]>>, name)

\* lines 59-94: one collection name
RemoveOne(tree, name) == RemoveParts(tree, name, Split(name, "."))

\* lines 60-61: the namespace root a name appends to the list
NamespaceRoots(roots, name) ==
    IF Len(Split(name, ".")) = 2
    THEN Append(roots, << Split(name, ".")[1] >>)
    ELSE roots

\* st after one name ended as r
NameDone(st, r, name) ==
    [fs |-> r.fs, err |-> r.err, out |-> st.out \o r.out,
     roots |-> NamespaceRoots(st.roots, name)]

RECURSIVE RemoveNames(_, _)
\* lines 58-94: st carries the tree, the error, the log and the roots
RemoveNames(st, names) ==
    IF names = <<>> \/ st.err # NoError THEN st
    ELSE RemoveNames(NameDone(st, RemoveOne(st.fs, Head(names)), Head(names)),
                     Tail(names))

\* lines 97-105: FileNotFoundError passes, another OSError is a warning
NamespaceRootDone(st, r) ==
    [fs |-> r.fs, err |-> NoError,
     out |-> st.out \o
             CASE r.err = NoError ->
                    << Event("info", "removed_namespace_root") >>
               [] r.err = OsError("FileNotFoundError") -> <<>>
               [] OTHER ->
                    << Event("warning", "namespace_root_not_removed") >>]

RECURSIVE RemoveNamespaceRoots(_, _)
\* lines 96-105
RemoveNamespaceRoots(st, roots) ==
    IF roots = <<>> THEN st
    ELSE RemoveNamespaceRoots(NamespaceRootDone(st, Rmdir(st.fs, Head(roots))),
                              Tail(roots))

\* lines 109-117: quieter than the namespace roots
CollectionRootDone(st, r) ==
    [fs |-> r.fs, err |-> NoError,
     out |-> st.out \o
             CASE r.err = NoError ->
                    << Event("info", "removed_collection_root") >>
               [] r.err = OsError("FileNotFoundError") -> <<>>
               [] OTHER ->
                    << Event("debug", "collection_root_not_removed") >>]

\* lines 107-117
RemoveCollectionRoot(st) ==
    IF ~Exists(st.fs, CollectionRoot) THEN st
    ELSE CollectionRootDone(st, Rmdir(st.fs, CollectionRoot))

\* lines 96-117, unless a removal raised
RemoveRoots(st) ==
    IF st.err # NoError THEN [fs |-> st.fs, err |-> st.err, out |-> st.out]
    ELSE RemoveCollectionRoot(
            RemoveNamespaceRoots(
                [fs |-> st.fs, err |-> NoError, out |-> st.out], st.roots))

\* lines 49-117
RemoveCollections(tree, deps) ==
    RemoveRoots(RemoveNames([fs |-> tree, err |-> NoError, out |-> <<>>,
                             roots |-> <<>>],
                            CollectionNames(deps)))

(***************************************************************************)
(* UnInstaller._pip_uninstall and UnInstaller.run                          *)
(***************************************************************************)
REQUIREMENTS_PY == <<"requirements", ".", "txt">>
TEST_REQUIREMENTS_PY == <<"test-requirements", ".", "txt">>

FileStates == {"absent", "empty", "lines"}

FileRec(level, kind, file) == Rec(level, kind, file, NoName, NoSpec, NoVersion)

\* mutant: subprocess.run without check=True, the exit status is ignored
PipUninstallUnchecked(requirements_file, state, exit) ==
    CASE state = "absent" ->
            [called |-> FALSE, raise |-> NoError,
             out |-> << FileRec("info", "requirements_missing", requirements_file) >>]
      [] state = "empty" ->
            [called |-> FALSE, raise |-> NoError,
             out |-> << FileRec("info", "requirements_empty", requirements_file) >>]
      [] OTHER ->
            [called |-> TRUE, raise |-> NoError,
             out |-> << FileRec("info", "uninstalling", requirements_file),
                        FileRec("debug", "running_command", requirements_file) >>]

\* lines 119-146: state is what the requirements file is, exit what pip
\* returns when it is run
PipUninstall(requirements_file, state, exit) ==
    CASE state = "absent" ->
            [called |-> FALSE, raise |-> NoError,
             out |-> << FileRec("info", "requirements_missing", requirements_file) >>]
      [] state = "empty" ->
            [called |-> FALSE, raise |-> NoError,
             out |-> << FileRec("info", "requirements_empty", requirements_file) >>]
      [] OTHER ->
            [called |-> TRUE,
             raise |-> IF exit # 0
                       THEN FileRec("exception", "RuntimeError", requirements_file)
                       ELSE NoError,
             out |-> << FileRec("info", "uninstalling", requirements_file),
                        FileRec("debug", "running_command", requirements_file) >>]

\* mutant: every target is accepted
ValidTargetAny(specifier) == TRUE

\* line 37
ValidTarget(specifier) == specifier \in {collection_name, Dot}

\* lines 37-43: the target is refused
RunRejected ==
    /\ pc = "run"
    /\ ~ValidTarget(collection_specifier)
    /\ log' = log \o << Event("critical", "unsupported_target") >>
    /\ pc' = "done"
    /\ UNCHANGED <<raised, checkerVars, uninstallerVars>>

\* the run after a _pip_uninstall that ended as r
PipDone(r, file, exit, next) ==
    /\ log' = log \o r.out
    /\ pip_calls' = IF r.called
                    THEN Append(pip_calls, [file |-> file, exit |-> exit])
                    ELSE pip_calls
    /\ raised' = r.raise
    /\ pc' = IF r.raise # NoError THEN "raised" ELSE next

PipStep(here, file, next) ==
    /\ pc = here
    /\ \E state \in FileStates : \E exit \in {0, 1} :
        /\ state # "lines" => exit = 0
        /\ PipDone(PipUninstall(file, state, exit), file, exit, next)
    /\ UNCHANGED <<checkerVars, collection_specifier, dependencies, fs, fs0,
                   fs1, runs>>

\* lines 37 and 45
RunPipUninstallMain ==
    /\ ValidTarget(collection_specifier)
    /\ PipStep("run", REQUIREMENTS_PY, "pip_test")

\* line 46
RunPipUninstallTest == PipStep("pip_test", TEST_REQUIREMENTS_PY, "remove")

\* the run after a _remove_collections that ended as r
RemoveDone(r, next) ==
    /\ fs' = r.fs
    /\ fs1' = IF runs = 0 THEN r.fs ELSE fs1
    /\ log' = log \o r.out
    /\ raised' = r.err
    /\ pc' = IF r.err # NoError THEN "raised" ELSE next
    /\ runs' = runs + 1

\* line 47
RunRemoveCollections ==
    /\ pc = "remove"
    /\ RemoveDone(RemoveCollections(fs, dependencies), "done")
    /\ UNCHANGED <<checkerVars, collection_specifier, dependencies, fs0,
                   pip_calls>>

\* _remove_collections called again on the tree the last call left
RemoveCollectionsCall ==
    /\ pc = "remove_collections"
    /\ runs < MaxRuns
    /\ RemoveDone(RemoveCollections(fs, dependencies), "remove_collections")
    /\ UNCHANGED <<checkerVars, collection_specifier, dependencies, fs0,
                   pip_calls>>

(***************************************************************************)
(* The trees and inputs the uninstaller is run on.                         *)
(***************************************************************************)
KindsOf(node) ==
    CASE node \in {PathAX, PathBY} ->
            {"absent", "dir", "file", "link_dir", "link_dangling"}
      [] node = InfoAX -> {"absent", "dir", "file", "link_dir"}
      [] OTHER -> {"absent", "dir"}

RECURSIVE TreesOver(_)
\* the trees over the first k nodes: a node is present only in a directory
TreesOver(k) ==
    IF k = 0 THEN {<<>>}
    ELSE LET node == NodeOrder[k] IN
         UNION {{(node :> kind) @@ t :
                    kind \in IF k = 1 \/ Kind(t, Parent(node)) = "dir"
                             THEN KindsOf(node) ELSE {"absent"}} :
                t \in TreesOver(k - 1)}

Trees == TreesOver(Len(NodeOrder))

DependencyLists ==
    { <<>>, <<OtherName>>, <<SiblingName>>, <<OtherName, SiblingName>>,
      <<SiblingName, OtherName>> }

Specifiers == {Dot, collection_name, OtherName}

\* UnInstaller.run is run on the trees without the stray entries;
\* _remove_collections alone is run on all of them.
RunTrees ==
    {t \in Trees : \A n \in {InfoBY, TextAX, NestedInfoAX, PathAZ} :
                        t[n] = "absent"}

CheckerIdle ==
    /\ collections = <<>>
    /\ ci = 1
    /\ di = 1
    /\ missing = FALSE
    /\ collections_missing = "unset"
    /\ dry_run_exit = -1
    /\ pip_report = NoReport

InitUninstall ==
    /\ pc = "run"
    /\ log = <<>>
    /\ raised = NoError
    /\ CheckerIdle
    /\ collection_specifier \in Specifiers
    /\ dependencies \in DependencyLists
    /\ fs \in RunTrees
    /\ fs0 = fs
    /\ fs1 = fs
    /\ pip_calls = <<>>
    /\ runs = 0

NextUninstall ==
    \/ RunRejected
    \/ RunPipUninstallMain
    \/ RunPipUninstallTest
    \/ RunRemoveCollections

SpecUninstall == InitUninstall /\ [][NextUninstall]_vars

InitRemove ==
    /\ pc = "remove_collections"
    /\ log = <<>>
    /\ raised = NoError
    /\ CheckerIdle
    /\ collection_specifier = collection_name
    /\ dependencies \in DependencyLists
    /\ fs \in Trees
    /\ fs0 = fs
    /\ fs1 = fs
    /\ pip_calls = <<>>
    /\ runs = 0

NextRemove == RemoveCollectionsCall

SpecRemove == InitRemove /\ [][NextRemove]_vars

(***************************************************************************)
(* Vocabulary of the properties.                                           *)
(***************************************************************************)
Count(kind) == Cardinality({i \in 1..Len(log) : log[i].kind = kind})

PairName(p) == collections[p[1]].name
PairDep(p) == DepAt(collections, p).dep
PairSpec(p) == DepAt(collections, p).version

NotInstalled(p) == PairDep(p) \notin Keys(collections)

InstalledVersion(p) == Lookup(collections, PairDep(p)).version

MalformedSpec(p) == ~ValidSpecifierSet(PairSpec(p))
MalformedVersion(p) ==
    PairDep(p) \in Keys(collections) /\ ~ValidVersion(InstalledVersion(p))
Malformed(p) == MalformedSpec(p) \/ MalformedVersion(p)

Mismatched(p) ==
    /\ ~Malformed(p)
    /\ ~NotInstalled(p)
    /\ ~SpecContains(PairSpec(p), InstalledVersion(p))

Satisfied(p) ==
    /\ ~Malformed(p)
    /\ ~NotInstalled(p)
    /\ SpecContains(PairSpec(p), InstalledVersion(p))

\* the pairs the loops have gone through
Processed ==
    {p \in Positions(collections) : p[1] < ci \/ (p[1] = ci /\ p[2] < di)}

CollectionPhaseDone == collections_missing # "unset"

InPythonPhase == pc \in {"python_deps", "read_report", "done"}

WarningsFor(kind, p) ==
    {i \in 1..Len(log) :
        /\ log[i].level = "warning"
        /\ log[i].kind = kind
        /\ log[i].coll = PairName(p)
        /\ log[i].dep = PairDep(p)}

InstallHints(dep) ==
    {i \in 1..Len(log) : log[i].kind = "pip4a_install" /\ log[i].dep = dep}

HintFollows(i, dep) ==
    /\ i < Len(log)
    /\ log[i + 1].level = "hint"
    /\ log[i + 1].dep = dep

\* C4: once the collection phase has stored its flag, every declared pair
\* whose dependency is no key of the universe has exactly one "not installed"
\* warning, directly followed by the install hint naming the dependency (one
\* hint per such pair), and the flag is true; the flag is true exactly when
\* some declared pair is not installed or mismatched.
C4_NotInstalledReported ==
    CollectionPhaseDone =>
        /\ \A p \in Positions(collections) :
            NotInstalled(p) =>
                /\ Cardinality(WarningsFor("not_installed", p)) = 1
                /\ \A i \in WarningsFor("not_installed", p) : HintFollows(i, PairDep(p))
                /\ collections_missing = "True"
        /\ \A d \in DepNames :
            Cardinality(InstallHints(d)) =
                Cardinality({p \in Positions(collections) :
                                NotInstalled(p) /\ PairDep(p) = d})
        /\ (collections_missing = "True") <=>
                (\E p \in Positions(collections) : NotInstalled(p) \/ Mismatched(p))

C4_Witness ==
    /\ CollectionPhaseDone
    /\ \E p, q \in Positions(collections) :
        /\ p # q
        /\ NotInstalled(p)
        /\ Satisfied(q)

\* C5: when every declared dependency is installed at a satisfying version,
\* the phase ends with the flag false, the "all dependant collections are
\* installed" note emitted once and neither warning nor hint; and the note is
\* never in a log that holds a not-installed or mismatch warning.
C5_AllSatisfiedConfirmed ==
    /\ (pc = "python_deps" /\ \A p \in Positions(collections) : Satisfied(p)) =>
        /\ collections_missing = "False"
        /\ Count("all_collections_installed") = 1
        /\ \A i \in 1..Len(log) : log[i].level \notin {"warning", "hint"}
    /\ Count("all_collections_installed") <= 1
    /\ (Count("not_installed") + Count("mismatch") > 0) =>
            Count("all_collections_installed") = 0

C5_Witness ==
    /\ pc = "python_deps"
    /\ Positions(collections) # {}
    /\ \A p \in Positions(collections) : Satisfied(p)
    /\ \E c \in 1..Len(collections) : collections[c].dependencies = <<>>

InstallListEmpty == ~pip_report.has_install \/ pip_report.install = <<>>

\* C6: the Python phase starts only after the collection loop has ended and
\* stored the flag; a completed run holds the disclaimer once exactly when the
\* flag is true and the report's install list is non-empty; with an absent or
\* empty install list it holds the confirmation once and no Python warning,
\* hint or disclaimer.
C6_FlagBeforePythonDeps ==
    /\ (InPythonPhase \/ dry_run_exit # -1) =>
        /\ CollectionPhaseDone
        /\ ci > Len(collections)
        /\ collections_missing = BoolStr(missing)
    /\ Count("missing_collections_disclaimer") <= 1
    /\ pc = "done" =>
        /\ (Count("missing_collections_disclaimer") = 1) <=>
                (collections_missing = "True" /\ ~InstallListEmpty)
        /\ InstallListEmpty =>
            /\ Count("all_python_installed") = 1
            /\ Count("missing_python") = 0
            /\ Count("pip_install") = 0
            /\ Count("missing_collections_disclaimer") = 0

C6_Witness ==
    /\ pc = "done"
    /\ Count("missing_collections_disclaimer") = 1

\* C7 (as claimed): after a dry run that exits non-zero the run is not
\* aborted: one critical record is logged and the check completes.
C7_DryRunFailureNotFatal ==
    (dry_run_exit = 1 /\ pc # "read_report") =>
        /\ Count("dry_run_failed") = 1
        /\ pc = "done"

\* C8 (as claimed): a processed mismatched pair has a warning and a hint.
C8_MismatchWarningAndHint ==
    \A p \in Processed :
        Mismatched(p) =>
            /\ WarningsFor("mismatch", p) # {}
            /\ \E i \in WarningsFor("mismatch", p) : i < Len(log) /\ log[i + 1].level = "hint"

ParseErrors == {"InvalidSpecifier", "InvalidVersion"}

\* C8 (amended): a processed mismatched pair has exactly one warning and no
\* hint, sets `missing` (and so the stored flag), and does not end the run:
\* the loop only ever stops at a malformed pair.
C8_MismatchWarningOnly ==
    /\ \A p \in Processed :
        Mismatched(p) =>
            /\ Cardinality(WarningsFor("mismatch", p)) = 1
            /\ \A i \in WarningsFor("mismatch", p) : ~HintFollows(i, PairDep(p))
            /\ InstallHints(PairDep(p)) = {}
            /\ missing
            /\ CollectionPhaseDone => collections_missing = "True"
    /\ (pc = "raised" /\ raised.kind \in ParseErrors) =>
            /\ <<ci, di>> \in Positions(collections)
            /\ Malformed(<<ci, di>>)

C8_Witness ==
    /\ pc = "done"
    /\ \E p, q \in Processed :
        /\ Mismatched(p)
        /\ p[1] < q[1]

SomeMalformed == \E p \in Positions(collections) : Malformed(p)

RecordsOfRun == {log[i] : i \in 1..Len(log)} \cup {raised}

\* C9 (as claimed): a malformed constraint or installed version string ends
\* the run with a diagnostic that identifies the offending pair.
C9_MalformedIdentifiesPair ==
    (pc \in {"done", "raised"}
        /\ \/ \E p \in Positions(collections) : MalformedSpec(p)
           \/ \E c \in 1..Len(collections) : ~ValidVersion(collections[c].version)) =>
        /\ pc = "raised"
        /\ raised.kind \in ParseErrors
        /\ \E r \in RecordsOfRun :
            /\ r.coll = PairName(<<ci, di>>)
            /\ r.dep = PairDep(<<ci, di>>)

\* C9 (amended): with a malformed constraint, or a malformed version of an
\* installed collection that a declared pair depends on, the run never gets
\* past the collection phase: no flag is stored, no confirmation is emitted,
\* the Python phase does not start, and the run stops only by raising the
\* parser's exception at a malformed pair; that exception carries the
\* offending string and names neither the collection nor the dependency.
C9_MalformedEndsRun ==
    SomeMalformed =>
        /\ ~InPythonPhase
        /\ collections_missing = "unset"
        /\ dry_run_exit = -1
        /\ Count("all_collections_installed") = 0
        /\ pc # "raised" => ENABLED Next
        /\ pc = "raised" =>
            /\ raised.kind \in ParseErrors
            /\ Malformed(<<ci, di>>)
            /\ raised.coll = NoName /\ raised.dep = NoName
            /\ raised.kind = "InvalidSpecifier" =>
                    /\ MalformedSpec(<<ci, di>>)
                    /\ raised.spec = PairSpec(<<ci, di>>)
            /\ raised.kind = "InvalidVersion" =>
                    /\ MalformedVersion(<<ci, di>>)
                    /\ raised.version = InstalledVersion(<<ci, di>>)

C9_Witness ==
    /\ pc = "raised"
    /\ raised.kind = "InvalidVersion"
    /\ Processed # {}

(***************************************************************************)
(* Properties of the uninstaller.                                          *)
(***************************************************************************)
\* C1: a target that is neither "." nor the local collection name gets one
\* critical record and nothing else: pip is never run, _remove_collections
\* is never called and the tree stays what it was.
C1_InvalidTargetNoWork ==
    collection_specifier \notin {collection_name, Dot} =>
        /\ pc \in {"run", "done"}
        /\ raised = NoError
        /\ pip_calls = <<>>
        /\ runs = 0
        /\ fs = fs0
        /\ pc = "run" => log = <<>>
        /\ pc = "done" => log = << Event("critical", "unsupported_target") >>

C1_Witness ==
    /\ pc = "done"
    /\ collection_specifier = OtherName
    /\ Exists(fs0, PathAX)
    /\ Exists(fs0, PathBY)

PipKinds == {"requirements_missing", "requirements_empty", "uninstalling",
             "running_command"}

\* the step of UnInstaller.run a record comes from
StepOf(rec) ==
    CASE rec.kind = "unsupported_target" -> 0
      [] rec.kind \in PipKinds /\ rec.coll = REQUIREMENTS_PY -> 1
      [] rec.kind \in PipKinds /\ rec.coll = TEST_REQUIREMENTS_PY -> 2
      [] OTHER -> 3

\* the records that say what was decided about a requirements file
PipDecisions(file) ==
    {i \in 1..Len(log) :
        /\ log[i].kind \in {"requirements_missing", "requirements_empty", "uninstalling"}
        /\ log[i].coll = file}

\* C2: the steps come in the order main requirements, test requirements,
\* collections, each at most once; a non-zero exit of pip is the last thing
\* the run does: RuntimeError leaves the run, no step follows, the tree is
\* untouched, and after a failure on the main file the test file was never
\* looked at.
C2_StepsInOrderFailureFatal ==
    /\ \A i, j \in 1..Len(log) : i < j => StepOf(log[i]) <= StepOf(log[j])
    /\ [k \in 1..Len(pip_calls) |-> pip_calls[k].file] \in
            { <<>>, <<REQUIREMENTS_PY>>, <<TEST_REQUIREMENTS_PY>>,
              <<REQUIREMENTS_PY, TEST_REQUIREMENTS_PY>> }
    /\ \A k \in 1..Len(pip_calls) :
        pip_calls[k].exit # 0 =>
            /\ k = Len(pip_calls)
            /\ pc = "raised"
            /\ raised = FileRec("exception", "RuntimeError", pip_calls[k].file)
            /\ runs = 0
            /\ fs = fs0
            /\ ~ENABLED NextUninstall
            /\ pip_calls[k].file = REQUIREMENTS_PY =>
                    PipDecisions(TEST_REQUIREMENTS_PY) = {}
    /\ pc = "pip_test" =>
        /\ Cardinality(PipDecisions(REQUIREMENTS_PY)) = 1
        /\ PipDecisions(TEST_REQUIREMENTS_PY) = {}
    /\ (pc = "remove" \/ runs > 0) =>
        /\ Cardinality(PipDecisions(REQUIREMENTS_PY)) = 1
        /\ Cardinality(PipDecisions(TEST_REQUIREMENTS_PY)) = 1
    /\ runs = 0 => fs = fs0
    /\ runs <= 1

C2_Witness ==
    /\ pc = "raised"
    /\ Len(pip_calls) = 1
    /\ pip_calls[1] = [file |-> REQUIREMENTS_PY, exit |-> 1]
    /\ Exists(fs0, PathAX)

\* C3: a second call of _remove_collections after a completed first one
\* raises nothing and leaves the tree as the first call left it.
C3_RemoveIdempotent ==
    runs >= 2 =>
        /\ raised = NoError
        /\ fs = fs1

C3_Witness ==
    /\ runs = 2
    /\ raised = NoError
    /\ fs1 # fs0
    /\ Kind(fs0, PathAX) = "link_dir"
    /\ Kind(fs0, PathBY) = "link_dangling"
    /\ Kind(fs1, CollectionRoot) = "dir"

NamespaceRootOf(name) == << Split(name, ".")[1] >>
CollectionPathOf(name) == << Split(name, ".")[1], Split(name, ".")[2] >>

Processed_names ==
    {CollectionNames(dependencies)[i] : i \in 1..Len(CollectionNames(dependencies))}

\* a directory named <name>...<.info>
LooksLikeMetadata(entry, name) ==
    /\ IsDir(fs0, entry)
    /\ StartsWith(EntryName(entry), name)
    /\ Suffix(EntryName(entry)) = InfoSuffix

FirstRunCompleted == runs >= 1 /\ raised = NoError

\* C10 (as claimed): after a completed call no child of a processed
\* collection's namespace directory that looks like its metadata remains.
C10_NamespaceChildrenScanned ==
    FirstRunCompleted =>
        \A name \in Processed_names : \A entry \in Nodes :
            (Parent(entry) = NamespaceRootOf(name) /\ LooksLikeMetadata(entry, name))
                => Kind(fs1, entry) = "absent"

\* C10 (amended): the children scanned are those of the collection root, and
\* only for a name whose namespace directory exists: after a completed call
\* none of them that looks like that name's metadata remains; every other
\* child of the collection root that is no namespace directory, and every
\* child of a namespace directory that is no processed collection path, is
\* what it was.
C10_CollectionRootScanned ==
    FirstRunCompleted =>
        /\ \A name \in Processed_names : \A entry \in Nodes :
            (/\ Exists(fs0, NamespaceRootOf(name))
             /\ Parent(entry) = CollectionRoot
             /\ Len(entry) = 1
             /\ LooksLikeMetadata(entry, name))
                => Kind(fs1, entry) = "absent"
        /\ \A entry \in Nodes :
            (/\ Len(entry) = 1
             /\ entry \notin {NamespaceRootOf(name) : name \in Processed_names}
             /\ Kind(fs1, entry) # Kind(fs0, entry))
                => \E name \in Processed_names :
                        /\ Exists(fs0, NamespaceRootOf(name))
                        /\ LooksLikeMetadata(entry, name)
        /\ \A entry \in Nodes :
            (/\ Len(entry) = 2
             /\ entry \notin {CollectionPathOf(name) : name \in Processed_names})
                => Kind(fs1, entry) = Kind(fs0, entry)

C10_Witness ==
    /\ FirstRunCompleted
    /\ OtherName \in Processed_names
    /\ Kind(fs0, InfoAX) = "dir" /\ Kind(fs1, InfoAX) = "absent"
    /\ Kind(fs0, NestedInfoAX) = "dir" /\ Kind(fs1, NestedInfoAX) = "dir"
    /\ Kind(fs0, TextAX) = "dir" /\ Kind(fs1, TextAX) = "dir"
    /\ Kind(fs0, NsB) = "absent"
    /\ Kind(fs0, InfoBY) = "dir" /\ Kind(fs1, InfoBY) = "dir"

====
